---- MODULE Spec2Model ----
(***************************************************************************)
(* Telemetry aggregation core of DnDBlacklineOPS:                          *)
(*   src/src/lib/telemetryStore.ts      the aggregate store, the event     *)
(*                                      validator, the summary projector   *)
(*   src/src/app/api/telemetry/route.ts the GET / POST / DELETE endpoints  *)
(***************************************************************************)
EXTENDS Integers, Sequences, FiniteSets, TLC

(***************************************************************************)
(* Decoded JSON values.  Every value is a record of one shape so that any  *)
(* two of them can be compared: k is the JSON kind, s the text of a        *)
(* string, n the value of a number (or 0 / 1 for a boolean).               *)
(***************************************************************************)
Undef == [k |-> "undefined", s |-> "", n |-> 0]
Null == [k |-> "null", s |-> "", n |-> 0]
Str(x) == [k |-> "string", s |-> x, n |-> 0]
Num(x) == [k |-> "number", s |-> "", n |-> x]
Obj == [k |-> "object", s |-> "", n |-> 0]

\* JavaScript's typeof: null is an "object".
TypeOf(v) == IF v.k = "null" THEN "object" ELSE v.k

\* JavaScript truthiness, as used by `event.reason ? ... : ...`.
Truthy(v) ==
    CASE v.k = "string" -> v.s # ""
      [] v.k = "number" -> v.n # 0
      [] v.k = "boolean" -> v.n = 1
      [] v.k = "object" -> TRUE
      [] OTHER -> FALSE

\* What a template literal `${v}` prints.
ToText(v) ==
    CASE v.k = "string" -> v.s
      [] v.k = "number" -> ToString(v.n)
      [] v.k = "boolean" -> (IF v.n = 1 THEN "true" ELSE "false")
      [] v.k = "object" -> "[object Object]"
      [] v.k = "null" -> "null"
      [] OTHER -> "undefined"

\* String.prototype.toUpperCase on the document types the validator admits.
ToUpperCase(s) ==
    CASE s = "acquisition" -> "ACQUISITION"
      [] s = "investor" -> "INVESTOR"
      [] OTHER -> s

\* An optional value: <<>> is null, <<x>> is x.
None == <<>>
Some(x) == <<x>>

FieldNames ==
    {"type", "timestamp", "property", "durationMs", "docType", "reason",
     "variant", "cacheSize", "count"}

\* An object none of whose fields is set.
NoFields == [f \in FieldNames |-> Undef]

\* A decoded request body: shape is "object" for a JSON object, "array" for
\* a JSON array and "null", "number" or "string" for the primitives.
ObjectBody(fields) == [shape |-> "object", fields |-> fields]
OtherBody(shape) == [shape |-> shape, fields |-> NoFields]

(***************************************************************************)
(* Program constants.                                                      *)
(***************************************************************************)
MAX_RECENT_ACTIVITY == 16
MAX_DURATION_SAMPLES == 50
MAX_ERROR_LOG == 10

(***************************************************************************)
(* Sequence helpers: Array.prototype.slice(0, n) and shift().              *)
(***************************************************************************)
Min(a, b) == IF a < b THEN a ELSE b
Max(a, b) == IF a > b THEN a ELSE b

Slice0(seq, n) == SubSeq(seq, 1, Min(Len(seq), n))

\* Faulty variant: the sample just pushed is dropped, not the oldest.
pushSampleDroppingNewest(buffer, sample) ==
    LET pushed == Append(buffer, sample)
    IN  IF Len(pushed) > MAX_DURATION_SAMPLES THEN buffer ELSE pushed

\* pushSample: push, then shift the oldest when over capacity.
pushSample(buffer, sample) ==
    LET pushed == Append(buffer, sample)
    IN  IF Len(pushed) > MAX_DURATION_SAMPLES THEN Tail(pushed) ELSE pushed

\* addRecentActivity / addErrorLog: prepend, then keep the first n.
\* Faulty variant: the log keeps one entry more than its capacity.
addRecentActivityKeepingOneMore(st, entry) ==
    [st EXCEPT !.recentActivity = Slice0(<<entry>> \o @, MAX_RECENT_ACTIVITY + 1)]

addRecentActivity(st, entry) ==
    [st EXCEPT !.recentActivity = Slice0(<<entry>> \o @, MAX_RECENT_ACTIVITY)]

\* Faulty variant: the error is appended and the last entries are kept.
addErrorLogAtEnd(st, error) ==
    [st EXCEPT !.recentErrors =
        LET all == @ \o <<error>>
        IN  SubSeq(all, Len(all) - Min(Len(all), MAX_ERROR_LOG) + 1, Len(all))]

addErrorLog(st, error) ==
    [st EXCEPT !.recentErrors = Slice0(<<error>> \o @, MAX_ERROR_LOG)]

(***************************************************************************)
(* The validator.                                                          *)
(***************************************************************************)
isObject(value) == value.shape \in {"object", "array"}

\* Faulty variant: any document type that is present passes.
isDocumentTypeWhenPresent(v) == v # Undef

isDocumentType(v) == v = Str("acquisition") \/ v = Str("investor")

KnownTypes ==
    {"contract_attempt", "contract_success", "contract_failure",
     "pdf_compiled", "pdf_compile_failure", "pdf_cached",
     "pdf_cache_cleared", "pdf_downloaded"}

\* The switch of isTelemetryEvent over value.type, on the fields e of value.
checkFieldsOfKind(e) ==
    LET t == e.type.s
    IN  CASE t = "contract_attempt" -> TypeOf(e.property) = "string"
          [] t = "contract_success" ->
               TypeOf(e.property) = "string" /\ TypeOf(e.durationMs) = "number"
          [] t = "contract_failure" ->
               e.property = Undef \/ TypeOf(e.property) = "string"
          [] t = "pdf_compiled" ->
               /\ TypeOf(e.property) = "string"
               /\ isDocumentType(e.docType)
               /\ TypeOf(e.durationMs) = "number"
          [] t = "pdf_compile_failure" ->
               /\ (e.property = Undef \/ TypeOf(e.property) = "string")
               /\ (e.docType = Undef \/ isDocumentType(e.docType))
          [] t = "pdf_cached" ->
               TypeOf(e.property) = "string" /\ TypeOf(e.cacheSize) = "number"
          [] t = "pdf_cache_cleared" -> TypeOf(e.count) = "number"
          [] t = "pdf_downloaded" ->
               TypeOf(e.property) = "string" /\ isDocumentType(e.docType)
          [] OTHER -> FALSE

\* Faulty variant: the timestamp is not checked.
isTelemetryEventWithoutTimestampCheck(value) ==
    IF ~isObject(value) \/ TypeOf(value.fields.type) # "string"
    THEN FALSE
    ELSE checkFieldsOfKind(value.fields)

isTelemetryEvent(value) ==
    IF ~isObject(value)
       \/ TypeOf(value.fields.type) # "string"
       \/ TypeOf(value.fields.timestamp) # "number"
    THEN FALSE
    ELSE checkFieldsOfKind(value.fields)

(***************************************************************************)
(* The aggregate store.  InitialState(t) is the module-level `state`       *)
(* object as constructed when the clock reads t.                           *)
(***************************************************************************)
InitialState(t) ==
    [contractAttempts |-> 0,
     contractSuccesses |-> 0,
     contractFailures |-> 0,
     contractDurations |-> <<>>,
     pdfCompilations |-> 0,
     pdfCompilationFailures |-> 0,
     pdfDurations |-> <<>>,
     pdfDownloads |-> 0,
     pdfCacheEntries |-> 0,
     lastCacheClearAt |-> None,
     lastContract |-> None,
     recentActivity |-> <<>>,
     recentErrors |-> <<>>,
     lastUpdated |-> t]

\* A recentActivity entry; the optional fields are JSON values, Undef when absent.
Activity(kind, property, status, timestamp, durationMs, docType, detail, variant) ==
    [kind |-> kind, property |-> property, status |-> status,
     timestamp |-> timestamp, durationMs |-> durationMs, docType |-> docType,
     detail |-> detail, variant |-> variant]

ErrorLog(source, message, timestamp) ==
    [source |-> source, message |-> message, timestamp |-> timestamp]

\* event.property ?? fallback
PropertyOr(e, fallback) ==
    IF e.property \in {Undef, Null} THEN fallback ELSE ToText(e.property)

recordContractAttempt(st, e) ==
    [st EXCEPT !.contractAttempts = @ + 1]

\* Faulty variant: a success is counted as an attempt too.
recordContractSuccessCountingAttempt(st, e) ==
    LET counted == [st EXCEPT !.contractSuccesses = @ + 1,
                              !.contractAttempts = @ + 1,
                              !.contractDurations = pushSample(@, e.durationMs.n),
                              !.lastContract =
                                  Some([property |-> e.property.s,
                                        status |-> "success",
                                        timestamp |-> e.timestamp.n,
                                        durationMs |-> e.durationMs])]
    IN  addRecentActivity(counted,
            Activity("contract", e.property.s, "success", e.timestamp.n,
                     e.durationMs, Undef, Undef, Undef))

\* Faulty variant: the update stops after the counter and the sample, as a
\* reader would find it if the handler could be interrupted there.
recordContractSuccessInterrupted(st, e) ==
    [st EXCEPT !.contractSuccesses = @ + 1,
               !.contractDurations = pushSample(@, e.durationMs.n)]

recordContractSuccess(st, e) ==
    LET counted == [st EXCEPT !.contractSuccesses = @ + 1,
                              !.contractDurations = pushSample(@, e.durationMs.n),
                              !.lastContract =
                                  Some([property |-> e.property.s,
                                        status |-> "success",
                                        timestamp |-> e.timestamp.n,
                                        durationMs |-> e.durationMs])]
    IN  addRecentActivity(counted,
            Activity("contract", e.property.s, "success", e.timestamp.n,
                     e.durationMs, Undef, Undef, Undef))

\* Faulty variant: no fallback text for a failure without a reason.
contractFailureDetailWithoutFallback(e) ==
    IF Truthy(e.reason)
    THEN PropertyOr(e, "Contract") \o ": " \o ToText(e.reason)
    ELSE ""

\* The `detail` of the contract_failure case: the message of its error entry.
contractFailureDetail(e) ==
    IF Truthy(e.reason)
    THEN PropertyOr(e, "Contract") \o ": " \o ToText(e.reason)
    ELSE PropertyOr(e, "Contract") \o " failed."

\* Faulty variant: a failure is counted and logged nowhere.
recordContractFailureCountingOnly(st, e) ==
    [st EXCEPT !.contractFailures = @ + 1]

\* Faulty variant: a failure leaves lastContract as it was.
recordContractFailureKeepingLastContract(st, e) ==
    LET property == PropertyOr(e, "Unspecified")
        counted == [st EXCEPT !.contractFailures = @ + 1]
        logged == addRecentActivity(counted,
                      Activity("contract", property, "failure", e.timestamp.n,
                               Undef, Undef, e.reason, Undef))
    IN  addErrorLog(logged, ErrorLog("contract", contractFailureDetail(e), e.timestamp.n))

recordContractFailure(st, e) ==
    LET property == PropertyOr(e, "Unspecified")
        counted == [st EXCEPT !.contractFailures = @ + 1,
                              !.lastContract =
                                  Some([property |-> property,
                                        status |-> "failure",
                                        timestamp |-> e.timestamp.n,
                                        durationMs |-> Undef])]
        logged == addRecentActivity(counted,
                      Activity("contract", property, "failure", e.timestamp.n,
                               Undef, Undef, e.reason, Undef))
        detail == contractFailureDetail(e)
    IN  addErrorLog(logged, ErrorLog("contract", detail, e.timestamp.n))

recordPdfCompiled(st, e) ==
    LET counted == [st EXCEPT !.pdfCompilations = @ + 1,
                              !.pdfDurations = pushSample(@, e.durationMs.n)]
    IN  addRecentActivity(counted,
            Activity("compile", e.property.s, "success", e.timestamp.n,
                     e.durationMs, e.docType,
                     IF e.variant = Str("recompile") THEN Str("Recompiled") ELSE Undef,
                     e.variant))

\* Faulty variant: the parts are joined by ", ".
JoinWithCommas(context) ==
    CASE Len(context) = 1 -> context[1]
      [] Len(context) = 2 -> context[1] \o ", " \o context[2]
      [] Len(context) = 3 -> context[1] \o ", " \o context[2] \o ", " \o context[3]
      [] OTHER -> ""

\* context.join(" / ")
Join(context) ==
    CASE Len(context) = 1 -> context[1]
      [] Len(context) = 2 -> context[1] \o " / " \o context[2]
      [] Len(context) = 3 -> context[1] \o " / " \o context[2] \o " / " \o context[3]
      [] OTHER -> ""

\* event.docType.toUpperCase() throws a TypeError when docType is truthy and
\* not a string: the one expression of recordTelemetryEvent that can throw on
\* a decoded JSON value.
throwsTypeError(e) ==
    /\ e.type = Str("pdf_compile_failure")
    /\ Truthy(e.docType)
    /\ TypeOf(e.docType) # "string"

\* The state recordTelemetryEvent leaves behind when that expression throws.
stateWhenThrown(st, t) ==
    [st EXCEPT !.lastUpdated = t, !.pdfCompilationFailures = @ + 1]

recordPdfCompileFailure(st, e) ==
    LET counted == [st EXCEPT !.pdfCompilationFailures = @ + 1]
        context ==
            (IF Truthy(e.property) THEN <<ToText(e.property)>> ELSE <<>>)
            \o (IF Truthy(e.docType)
                THEN <<"PDF " \o ToUpperCase(ToText(e.docType))>> ELSE <<>>)
            \o (IF e.variant = Str("recompile") THEN <<"Recompile">> ELSE <<>>)
        scope == IF Len(context) > 0 THEN Join(context) ELSE "PDF"
        reasonDetail == IF Truthy(e.reason)
                        THEN scope \o ": " \o ToText(e.reason)
                        ELSE scope \o ": compile failure."
        detail == IF e.variant = Str("recompile")
                  THEN reasonDetail \o " (Recompile)"
                  ELSE reasonDetail
        logged == addErrorLog(counted, ErrorLog("pdf", detail, e.timestamp.n))
    IN  addRecentActivity(logged,
            Activity("compile", PropertyOr(e, "Unspecified"), "failure",
                     e.timestamp.n, Undef, e.docType,
                     IF e.variant = Str("recompile")
                     THEN (IF Truthy(e.reason)
                           THEN Str("Recompile Â· " \o ToText(e.reason))
                           ELSE Str("Recompile attempt failed."))
                     ELSE e.reason,
                     e.variant))

\* Faulty variant: the reported size is added to the gauge.
recordPdfCachedAccumulating(st, e) ==
    [st EXCEPT !.pdfCacheEntries = Max(0, @ + e.cacheSize.n)]

recordPdfCached(st, e) ==
    [st EXCEPT !.pdfCacheEntries = Max(0, e.cacheSize.n)]

\* Faulty variant: the time of the clear is taken from the server's clock.
recordPdfCacheClearedAtServerTime(st, e) ==
    [st EXCEPT !.pdfCacheEntries = 0, !.lastCacheClearAt = Some(st.lastUpdated)]

recordPdfCacheCleared(st, e) ==
    [st EXCEPT !.pdfCacheEntries = 0, !.lastCacheClearAt = Some(e.timestamp.n)]

recordPdfDownloaded(st, e) ==
    [st EXCEPT !.pdfDownloads = @ + 1]

\* Faulty variant: lastUpdated is taken from the event, not from the clock.
recordTelemetryEventStampingEventTime(st, e, t) ==
    LET stamped == [st EXCEPT !.lastUpdated = e.timestamp.n]
        type == e.type.s
    IN  CASE type = "contract_attempt" -> recordContractAttempt(stamped, e)
          [] type = "contract_success" -> recordContractSuccess(stamped, e)
          [] type = "contract_failure" -> recordContractFailure(stamped, e)
          [] type = "pdf_compiled" -> recordPdfCompiled(stamped, e)
          [] type = "pdf_compile_failure" -> recordPdfCompileFailure(stamped, e)
          [] type = "pdf_cached" -> recordPdfCached(stamped, e)
          [] type = "pdf_cache_cleared" -> recordPdfCacheCleared(stamped, e)
          [] type = "pdf_downloaded" -> recordPdfDownloaded(stamped, e)
          [] OTHER -> stamped

\* recordTelemetryEvent on an event with fields e, the clock reading t.
recordTelemetryEvent(st, e, t) ==
    LET stamped == [st EXCEPT !.lastUpdated = t]
        type == e.type.s
    IN  CASE type = "contract_attempt" -> recordContractAttempt(stamped, e)
          [] type = "contract_success" -> recordContractSuccess(stamped, e)
          [] type = "contract_failure" -> recordContractFailure(stamped, e)
          [] type = "pdf_compiled" -> recordPdfCompiled(stamped, e)
          [] type = "pdf_compile_failure" -> recordPdfCompileFailure(stamped, e)
          [] type = "pdf_cached" -> recordPdfCached(stamped, e)
          [] type = "pdf_cache_cleared" -> recordPdfCacheCleared(stamped, e)
          [] type = "pdf_downloaded" -> recordPdfDownloaded(stamped, e)
          [] OTHER -> stamped

\* Faulty variant: clearing the errors resets the failure counters too.
clearTelemetryErrorsAndFailureCounts(st, t) ==
    [cleared |-> Len(st.recentErrors),
     state |-> [st EXCEPT !.recentErrors = <<>>, !.lastUpdated = t,
                          !.contractFailures = 0, !.pdfCompilationFailures = 0]]

\* Faulty variant: the count is taken after the log has been emptied.
clearTelemetryErrorsCountingAfterwards(st, t) ==
    LET emptied == [st EXCEPT !.recentErrors = <<>>, !.lastUpdated = t]
    IN  [cleared |-> Len(emptied.recentErrors), state |-> emptied]

\* Faulty variant: clearing the errors forgets the last contract too.
clearTelemetryErrorsAndLastContract(st, t) ==
    [cleared |-> Len(st.recentErrors),
     state |-> [st EXCEPT !.recentErrors = <<>>, !.lastUpdated = t,
                          !.lastContract = None]]

\* clearTelemetryErrors: the state it leaves and the count it returns.
clearTelemetryErrors(st, t) ==
    [cleared |-> Len(st.recentErrors),
     state |-> [st EXCEPT !.recentErrors = <<>>, !.lastUpdated = t]]

(***************************************************************************)
(* The summary projector.  A quotient is kept exact, as a fraction in      *)
(* lowest terms; Math.sqrt(x) is kept as the record [sqrtOf |-> x].        *)
(***************************************************************************)
RECURSIVE Gcd(_, _)
Gcd(a, b) == IF b = 0 THEN a ELSE Gcd(b, a % b)

Abs(a) == IF a < 0 THEN -a ELSE a

\* num / den, den > 0.
Ratio(num, den) ==
    LET g == Gcd(Abs(num), den)
    IN  [num |-> num \div g, den |-> den \div g]

RECURSIVE Sum(_)
Sum(values) == IF values = <<>> THEN 0 ELSE Head(values) + Sum(Tail(values))

RECURSIVE SumSquares(_)
SumSquares(values) ==
    IF values = <<>> THEN 0 ELSE Head(values) * Head(values) + SumSquares(Tail(values))

calculateAverage(values) ==
    IF Len(values) = 0 THEN None ELSE Some(Ratio(Sum(values), Len(values)))

\* Faulty variant: the deviation of a population, with the divisor n.
calculateStdDevOfPopulation(values) ==
    IF Len(values) < 2
    THEN None
    ELSE LET n == Len(values)
         IN  Some([sqrtOf |-> Ratio(n * SumSquares(values) - Sum(values) * Sum(values),
                                    n * n)])

\* sum((v - average)^2) / (n - 1) = (n * sum(v^2) - sum(v)^2) / (n * (n - 1))
calculateStdDev(values) ==
    IF Len(values) < 2
    THEN None
    ELSE LET n == Len(values)
         IN  Some([sqrtOf |-> Ratio(n * SumSquares(values) - Sum(values) * Sum(values),
                                    n * (n - 1))])

\* Faulty variant: the rate is measured against the outcomes and is 0 when
\* there are none.
contractSuccessRateOfOutcomes(st) ==
    IF st.contractSuccesses + st.contractFailures > 0
    THEN Some(Ratio(st.contractSuccesses, st.contractSuccesses + st.contractFailures))
    ELSE Some(Ratio(0, 1))

\* Faulty variant: the quotient is taken the wrong way round.
contractSuccessRateInverted(st) ==
    IF st.contractAttempts > 0
    THEN Some(Ratio(st.contractAttempts, st.contractSuccesses))
    ELSE None

\* The const contractSuccessRate of getTelemetrySummary.
contractSuccessRate(st) ==
    IF st.contractAttempts > 0
    THEN Some(Ratio(st.contractSuccesses, st.contractAttempts))
    ELSE None

getTelemetrySummary(st) ==
    [totals |-> [contractAttempts |-> st.contractAttempts,
                 contractSuccesses |-> st.contractSuccesses,
                 contractFailures |-> st.contractFailures,
                 pdfCompilations |-> st.pdfCompilations,
                 pdfCompilationFailures |-> st.pdfCompilationFailures,
                 pdfDownloads |-> st.pdfDownloads],
     metrics |-> [contractAverageMs |-> calculateAverage(st.contractDurations),
                  pdfAverageMs |-> calculateAverage(st.pdfDurations),
                  pdfNetJitterMs |-> calculateStdDev(st.pdfDurations),
                  contractSuccessRate |-> contractSuccessRate(st),
                  pdfSuccessRate |->
                      IF st.pdfCompilations + st.pdfCompilationFailures > 0
                      THEN Some(Ratio(st.pdfCompilations,
                                      st.pdfCompilations + st.pdfCompilationFailures))
                      ELSE None],
     cache |-> [entries |-> st.pdfCacheEntries, lastClearAt |-> st.lastCacheClearAt],
     lastContract |-> st.lastContract,
     recentActivity |-> st.recentActivity,
     recentErrors |-> st.recentErrors,
     lastUpdated |-> st.lastUpdated]

(***************************************************************************)
(* A summary in the hands of its caller.  getTelemetrySummary puts the     *)
(* store's own recentActivity and recentErrors arrays and lastContract     *)
(* object into the summary; `shares` lists those the summary still has in  *)
(* common with the store.  A later call that assigns a new array or object *)
(* to a field of the store ends the sharing; one that changes the array or *)
(* object in place shows through in the summary.                           *)
(***************************************************************************)
SharedWithStore == {"lastContract", "recentActivity", "recentErrors"}

NothingHeld == [summary |-> None, shares |-> {}]

hold(summary) == [summary |-> Some(summary), shares |-> SharedWithStore]

\* The fields of the store to which a mutation assigns a new array or object.
assignedAnew(mutation) ==
    LET type == mutation.e.type.s
    IN  CASE mutation.op = "clear" -> {"recentErrors"}
          [] type = "contract_success" -> {"lastContract", "recentActivity"}
          [] type = "contract_failure" ->
               {"lastContract", "recentActivity", "recentErrors"}
          [] type = "pdf_compiled" -> {"recentActivity"}
          [] type = "pdf_compile_failure" -> {"recentErrors", "recentActivity"}
          [] OTHER -> {}

\* Faulty variant: the error log is changed in place, with unshift and
\* length = 0.
mutatedInPlaceWithErrorLog(mutation) ==
    LET type == mutation.e.type.s
    IN  CASE mutation.op = "clear" -> {"recentErrors"}
          [] type = "contract_success" -> {"contractDurations"}
          [] type = "contract_failure" -> {"recentErrors"}
          [] type = "pdf_compiled" -> {"pdfDurations"}
          [] type = "pdf_compile_failure" -> {"recentErrors"}
          [] OTHER -> {}

\* The fields of the store whose array a mutation changes in place: pushSample
\* uses push and shift.
mutatedInPlace(mutation) ==
    LET type == mutation.e.type.s
    IN  CASE mutation.op = "clear" -> {}
          [] type = "contract_success" -> {"contractDurations"}
          [] type = "pdf_compiled" -> {"pdfDurations"}
          [] OTHER -> {}

\* What the holder of a summary finds in it after a mutation that left the
\* store in state st.
seenAfter(holder, mutation, st) ==
    IF holder.summary = None
    THEN holder
    ELSE LET summary == holder.summary[1]
             showing == holder.shares \cap mutatedInPlace(mutation)
         IN  [summary |-> Some([f \in DOMAIN summary |->
                                   IF f \in showing THEN st[f] ELSE summary[f]]),
              shares |-> holder.shares \ assignedAnew(mutation)]

(***************************************************************************)
(* The endpoints of route.ts.  A response is                               *)
(*   [status, ok, error, cleared, summary]                                 *)
(* with error = "" when the body has no error field and cleared / summary  *)
(* None when the body has no such field.                                   *)
(***************************************************************************)
Response(status, ok, error, cleared, summary) ==
    [status |-> status, ok |-> ok, error |-> error, cleared |-> cleared,
     summary |-> summary]

\* A request body that is not JSON: request.json() rejects.
MalformedBody == OtherBody("malformed")

\* What request.json() throws on such a body: a SyntaxError carrying the
\* parser's message.
JsonSyntaxErrors ==
    {[isError |-> TRUE, message |-> "Unexpected token"],
     [isError |-> TRUE, message |-> "Unexpected end of JSON input"]}

\* What calling toUpperCase on a value that has no such method throws.
TypeErrorOfToUpperCase ==
    [isError |-> TRUE, message |-> "event.docType.toUpperCase is not a function"]

\* The catch clause of POST.
CaughtMessage(error) ==
    IF error.isError THEN error.message ELSE "Telemetry ingestion failed."

\* Faulty variant: a rejected payload is written to the error log.
POSTLoggingRejected(st, body, t, thrown) ==
    IF body.shape = "malformed"
    THEN [state |-> st,
          response |-> Response(400, FALSE, CaughtMessage(thrown), None, None)]
    ELSE IF ~isTelemetryEvent(body)
    THEN [state |-> addErrorLog(st, ErrorLog("contract", "Invalid telemetry payload.", t)),
          response |-> Response(400, FALSE, "Invalid telemetry payload.", None, None)]
    ELSE [state |-> recordTelemetryEvent(st, body.fields, t),
          response |-> Response(200, TRUE, "", None, None)]

\* Faulty variant: no try / catch, so that the rejection of request.json()
\* escapes the handler and the framework answers 500.
POSTWithoutCatch(st, body, t, thrown) ==
    IF body.shape = "malformed"
    THEN [state |-> st,
          response |-> Response(500, FALSE, "", None, None)]
    ELSE IF ~isTelemetryEvent(body)
    THEN [state |-> st,
          response |-> Response(400, FALSE, "Invalid telemetry payload.", None, None)]
    ELSE [state |-> recordTelemetryEvent(st, body.fields, t),
          response |-> Response(200, TRUE, "", None, None)]

\* Faulty variant: an accepted event is recorded twice.
POSTRecordingTwice(st, body, t, thrown) ==
    IF body.shape = "malformed"
    THEN [state |-> st,
          response |-> Response(400, FALSE, CaughtMessage(thrown), None, None)]
    ELSE IF ~isTelemetryEvent(body)
    THEN [state |-> st,
          response |-> Response(400, FALSE, "Invalid telemetry payload.", None, None)]
    ELSE [state |-> recordTelemetryEvent(recordTelemetryEvent(st, body.fields, t),
                                         body.fields, t),
          response |-> Response(200, TRUE, "", None, None)]

\* POST from the point where the awaited body is available: the state it
\* leaves and the response it sends.  `thrown` is what request.json() throws
\* when the body is not JSON.
POST(st, body, t, thrown) ==
    IF body.shape = "malformed"
    THEN [state |-> st,
          response |-> Response(400, FALSE, CaughtMessage(thrown), None, None)]
    ELSE IF ~isTelemetryEvent(body)
    THEN [state |-> st,
          response |-> Response(400, FALSE, "Invalid telemetry payload.", None, None)]
    ELSE IF throwsTypeError(body.fields)
    THEN [state |-> stateWhenThrown(st, t),
          response |-> Response(400, FALSE, CaughtMessage(TypeErrorOfToUpperCase),
                                None, None)]
    ELSE [state |-> recordTelemetryEvent(st, body.fields, t),
          response |-> Response(200, TRUE, "", None, None)]

\* Faulty variant: a query hands the error log over and empties it.
GETDrainingErrors(st) ==
    [state |-> [st EXCEPT !.recentErrors = <<>>],
     response |-> Response(200, FALSE, "", None, Some(getTelemetrySummary(st)))]

GET(st) ==
    [state |-> st,
     response |-> Response(200, FALSE, "", None, Some(getTelemetrySummary(st)))]

DELETE(st, t) ==
    LET done == clearTelemetryErrors(st, t)
    IN  [state |-> done.state,
         response |-> Response(200, TRUE, "", Some(done.cleared), None)]

(***************************************************************************)
(* Bounds of the exploration.                                              *)
(***************************************************************************)
\* POST requests of a run that probes the validator with arbitrary payloads.
MaxProbes == 1
\* POST and DELETE requests of a run that mixes every kind of event.
MaxMixed == 3
\* POST and DELETE requests of a run with concurrent requests and a running clock.
MaxConcurrent == 3
\* POST requests of a run that fills a duration buffer past its capacity.
MaxSamples == 52
\* POST requests of a run that fills the error log past its capacity.
MaxFailures == 12
\* POST requests whose body is being awaited at the same time.
MaxInflight == 2
\* The last reading of the server's clock.
MaxClock == 2
\* addEntry and clearCache calls of a run of the client's PDF cache.
MaxClientCalls == 3
\* POST requests of a run that sends every kind of event while the clock runs.
MaxTimed == 1
MaxSubmissions == 2
MaxViews == 3
MaxChanges == 2
\* The number of entries whose JSON text localStorage has room for.
Quota == 1

(***************************************************************************)
(* The request bodies clients send.  `ts` is the sender's timestamp.       *)
(***************************************************************************)
Event(type, ts) == [NoFields EXCEPT !.type = Str(type), !.timestamp = Num(ts)]

Property == Str("12 Elm St")

contract_attempt(ts) == [Event("contract_attempt", ts) EXCEPT !.property = Property]

contract_success(ts, durationMs) ==
    [Event("contract_success", ts) EXCEPT
        !.property = Property, !.durationMs = Num(durationMs)]

contract_failure(ts, property, reason) ==
    [Event("contract_failure", ts) EXCEPT !.property = property, !.reason = reason]

pdf_compiled(ts, docType, durationMs, variant) ==
    [Event("pdf_compiled", ts) EXCEPT
        !.property = Property, !.docType = docType,
        !.durationMs = Num(durationMs), !.variant = variant]

pdf_compile_failure(ts, property, docType, reason, variant) ==
    [Event("pdf_compile_failure", ts) EXCEPT
        !.property = property, !.docType = docType, !.reason = reason,
        !.variant = variant]

pdf_cached(ts, cacheSize) ==
    [Event("pdf_cached", ts) EXCEPT !.property = Property, !.cacheSize = Num(cacheSize)]

pdf_cache_cleared(ts, count) ==
    [Event("pdf_cache_cleared", ts) EXCEPT !.count = Num(count)]

pdf_downloaded(ts, docType) ==
    [Event("pdf_downloaded", ts) EXCEPT !.property = Property, !.docType = docType]

\* Well-formed events of every kind.
MixedEvents(ts) ==
    {contract_attempt(ts),
     contract_success(ts, 100),
     contract_success(ts, 300),
     contract_failure(ts, Undef, Undef),
     contract_failure(ts, Property, Str("timeout")),
     pdf_compiled(ts, Str("acquisition"), 100 * ts, Undef),
     pdf_compile_failure(ts, Property, Str("investor"), Str("HTTP 500"), Str("recompile")),
     pdf_cached(ts, 5),
     pdf_cached(ts, 3),
     pdf_cached(ts, -2),
     pdf_cache_cleared(ts, 3),
     pdf_downloaded(ts, Str("investor"))}

\* The payload of testable property 6: pdf_compiled without docType and durationMs.
TruncatedPdfCompiled(ts) == [Event("pdf_compiled", ts) EXCEPT !.property = Property]

MixedBodies(ts) ==
    {ObjectBody(e) : e \in MixedEvents(ts)}
    \cup {ObjectBody(TruncatedPdfCompiled(ts)), MalformedBody}

\* Arbitrary decoded payloads: every field a kind reads is, in turn, right,
\* absent or of the wrong type.
AnyString == {Property, Undef, Num(7)}
AnyNumber(n) == {Num(n), Undef, Str("12")}
AnyDocType == {Str("acquisition"), Str("investor"), Str("lease"), Undef}
AnyReason == {Str("timeout"), Str(""), Undef, Num(42), Obj}
AnyVariant == {Str("recompile"), Str("initial"), Str("weekly"), Undef}

ProbeEvents(ts) ==
    {[Event("contract_attempt", ts) EXCEPT !.property = p] : p \in AnyString}
    \cup {[Event("contract_success", ts) EXCEPT !.property = p, !.durationMs = d] :
            p \in AnyString, d \in AnyNumber(100)}
    \cup {[Event("contract_failure", ts) EXCEPT !.property = p, !.reason = r] :
            p \in AnyString \cup {Str(""), Null}, r \in AnyReason}
    \cup {[Event("pdf_compiled", ts) EXCEPT
              !.property = p, !.docType = dt, !.durationMs = d, !.variant = v] :
            p \in {Property, Undef}, dt \in AnyDocType, d \in {Num(200), Undef},
            v \in AnyVariant}
    \cup {[Event("pdf_compile_failure", ts) EXCEPT
              !.property = p, !.docType = dt, !.reason = r, !.variant = v] :
            p \in AnyString, dt \in AnyDocType \ {Str("investor")},
            r \in {Str("timeout"), Undef, Num(42)},
            v \in AnyVariant \ {Str("initial")}}
    \cup {[Event("pdf_compile_failure", ts) EXCEPT !.docType = Num(5)]}
    \cup {[Event("pdf_cached", ts) EXCEPT !.property = p, !.cacheSize = c] :
            p \in AnyString, c \in AnyNumber(4) \cup {Num(-1)}}
    \cup {[Event("pdf_cache_cleared", ts) EXCEPT !.count = c] : c \in AnyNumber(4)}
    \cup {[Event("pdf_downloaded", ts) EXCEPT !.property = p, !.docType = dt] :
            p \in AnyString, dt \in AnyDocType}
    \cup {[e EXCEPT !.timestamp = t] :
            e \in MixedEvents(ts), t \in {Undef, Str("1700000000000"), Null}}
    \cup {[contract_attempt(ts) EXCEPT !.type = t] :
            t \in {Undef, Num(1), Null, Str("contract_retry"), Str("")}}

ProbeBodies(ts) ==
    {ObjectBody(e) : e \in ProbeEvents(ts)}
    \cup {OtherBody(shape) : shape \in {"null", "number", "string", "array", "boolean"}}
    \cup {ObjectBody(NoFields), MalformedBody}

\* The sample of the n-th request of a run that fills a duration buffer.
SampleOf(n) == 100 + n

\* The events of the runs with concurrent requests.
ConcurrentBodies(ts) ==
    {ObjectBody(contract_attempt(ts)),
     ObjectBody(contract_success(ts, 100)),
     ObjectBody(pdf_compile_failure(ts, Undef, Undef, Undef, Undef)),
     ObjectBody(TruncatedPdfCompiled(ts)),
     MalformedBody}

Scenarios ==
    {"probe", "mixed", "concurrent", "contractSamples", "pdfSamples", "failures",
     "client", "timed", "submission"}

\* The bodies the n-th POST request of a run may carry.
Bodies(sc, n) ==
    CASE sc = "probe" -> ProbeBodies(n)
      [] sc = "mixed" -> MixedBodies(n)
      [] sc = "concurrent" -> ConcurrentBodies(n)
      [] sc = "timed" -> MixedBodies(n)
      [] sc = "contractSamples" -> {ObjectBody(contract_success(n, SampleOf(n)))}
      [] sc = "pdfSamples" ->
            {ObjectBody(pdf_compiled(n, Str("acquisition"), SampleOf(n), Str("initial")))}
      [] sc = "failures" ->
            {ObjectBody(contract_failure(n, Property, Str("timeout"))),
             ObjectBody(pdf_compile_failure(n, Undef, Undef, Undef, Undef))}

\* The POST and DELETE requests of a run.
MaxRequests(sc) ==
    CASE sc = "probe" -> MaxProbes
      [] sc = "mixed" -> MaxMixed
      [] sc = "concurrent" -> MaxConcurrent
      [] sc = "contractSamples" -> MaxSamples
      [] sc = "pdfSamples" -> MaxSamples
      [] sc = "failures" -> MaxFailures
      [] sc = "client" -> 0
      [] sc = "timed" -> MaxTimed
      [] sc = "submission" -> 0

\* Which runs have concurrent requests, DELETE requests and a running clock.
Concurrency(sc) == IF sc = "concurrent" THEN MaxInflight ELSE 1
Clears(sc) == sc \in {"mixed", "concurrent"}
Clock(sc) == IF sc \in {"concurrent", "timed"} THEN MaxClock ELSE 0
\* Which runs follow the summary a query returned after the query.
Holds(sc) == sc = "mixed"

(***************************************************************************)
(* The client's PDF cache: one mounted usePdfCache.  `entries` is the      *)
(* state of its useState hook, `queue` the updater functions passed to     *)
(* setEntries that React has not run yet, `persisted` the list stored in   *)
(* localStorage, `returned` the call made last and the value it returned,  *)
(* `outbox` the telemetry bodies posted so far.                            *)
(*                                                                         *)
(* React runs an updater function inside setEntries itself only when the   *)
(* component has no update pending, and otherwise queues it for the next   *)
(* render; `eager` says which of the two happens.                          *)
(***************************************************************************)
\* The contract page before the first submission.  `runs` holds, for each
\* submission, how far its two compileLatexToPdf calls have come.
NewPage ==
    [pc |-> "idle", isSubmitting |-> FALSE, isCompilingPdf |-> FALSE, runs |-> <<>>]

NewCache ==
    [entries |-> <<>>, queue |-> <<>>, persisted |-> <<>>,
     returned |-> [call |-> "none", value |-> 0], calls |-> 0, outbox |-> <<>>,
     page |-> NewPage]

\* newEntry of addEntry; the n-th call generates the id n.
PdfCacheEntry(n, generatedAt) == [id |-> n, createdAt |-> generatedAt]

\* The two updater functions: what they return on `previous`.
applyUpdater(previous, updater) ==
    IF updater.op = "add" THEN <<updater.entry>> \o previous ELSE <<>>

\* The queued updater functions run one after the other, at a render.
RECURSIVE applyQueue(_, _)
applyQueue(previous, queue) ==
    IF queue = <<>> THEN previous
    ELSE applyQueue(applyUpdater(previous, Head(queue)), Tail(queue))

\* setEntries(updater) and the local variable (newLength, cleared) the updater
\* assigns: the variable still holds its initial 0 when the caller returns it
\* before the updater has run.
setEntries(cache, call, updater, eager) ==
    LET updated == applyUpdater(cache.entries, updater)
        assigned == IF updater.op = "add" THEN Len(updated) ELSE Len(cache.entries)
    IN  IF eager
        THEN [cache EXCEPT !.entries = updated,
                           !.persisted = updated,
                           !.returned = [call |-> call, value |-> assigned],
                           !.calls = @ + 1]
        ELSE [cache EXCEPT !.queue = Append(@, updater),
                           !.returned = [call |-> call, value |-> 0],
                           !.calls = @ + 1]

addEntry(cache, generatedAt, eager) ==
    LET newEntry == PdfCacheEntry(cache.calls + 1, generatedAt)
    IN  setEntries(cache, "addEntry", [op |-> "add", entry |-> newEntry], eager)

clearCache(cache, eager) ==
    setEntries(cache, "clearCache", [op |-> "clear", entry |-> PdfCacheEntry(0, 0)],
               eager)

\* A render of the component: the queued updater functions run, each
\* persisting its result.
render(cache) ==
    LET updated == applyQueue(cache.entries, cache.queue)
    IN  [cache EXCEPT !.entries = updated, !.persisted = updated, !.queue = <<>>]

\* postTelemetry(event): the body of the request it sends.
postTelemetry(cache, event) == [cache EXCEPT !.outbox = Append(@, ObjectBody(event))]

(***************************************************************************)
(* Several mounted usePdfCache instances over one localStorage.  A view is *)
(* the state of one instance: `entries` is the state of its useState hook, *)
(* `queue` what was passed to setEntries and waits for the next render,    *)
(* `events` the number of storage events the browser has yet to deliver to *)
(* it.  Views 1 and 2 are in one window, views 3 and 4 in another.         *)
(***************************************************************************)
Views == 1..MaxViews

Window(v) == (v + 1) \div 2

NewView == [entries |-> <<>>, queue |-> <<>>, events |-> 0]

NewBrowser == [storage |-> None, views |-> [v \in Views |-> NewView], changes |-> 0]

\* readCache(): the entries persistCache wrote pass every check of the loop
\* and are returned as they were written; without the key the result is [].
readCache(b) == IF b.storage = None THEN <<>> ELSE b.storage[1]

\* persistCache(entries) called in window w.  setItem throws when the text
\* does not fit, and the error is swallowed; otherwise the custom event runs
\* handleCustomUpdate of every view of the window, and the browser queues a
\* storage event for the views of the other windows if the value changed.
persistCache(b, w, entries) ==
    IF Len(entries) > Quota
    THEN b
    ELSE [b EXCEPT !.storage = Some(entries),
                   !.views = [u \in Views |->
                       IF Window(u) = w
                       THEN [b.views[u] EXCEPT
                                !.queue = Append(@, [op |-> "set", value |-> entries])]
                       ELSE IF b.storage # Some(entries)
                            THEN [b.views[u] EXCEPT !.events = @ + 1]
                            ELSE b.views[u]]]

\* One item of the queue of view v runs on `previous`: a value replaces it, an
\* updater function computes the next list and persists it.
runItem(b, v, item) ==
    IF item.op = "set"
    THEN [b EXCEPT !.views[v].entries = item.value]
    ELSE LET updated == applyUpdater(b.views[v].entries, item)
         IN  persistCache([b EXCEPT !.views[v].entries = updated], Window(v), updated)

RECURSIVE runItems(_, _, _)
runItems(b, v, items) ==
    IF items = <<>> THEN b
    ELSE runItems(runItem(b, v, Head(items)), v, Tail(items))

\* A render of view v: what was queued runs in order; what is queued
\* meanwhile waits for the next render.
renderView(b, v) ==
    runItems([b EXCEPT !.views[v].queue = <<>>], v, b.views[v].queue)

\* setEntries(updater) of view v: at once if nothing is pending, else queued.
setEntriesOf(b, v, updater, eager) ==
    LET called == [b EXCEPT !.changes = @ + 1]
    IN  IF eager
        THEN runItem(called, v, updater)
        ELSE [called EXCEPT !.views[v].queue = Append(@, updater)]

(***************************************************************************)
(* handleSubmit of the contract page, one step for each stretch between    *)
(* two awaits.  The n-th submission stamps its events with n.              *)
(***************************************************************************)
DocTypes == {"acquisition", "investor"}

OtherDocType(docType) == IF docType = "acquisition" THEN "investor" ELSE "acquisition"

\* The forms a user may submit: complete, or with the address left empty.
Forms == {[targetAddress |-> ""], [targetAddress |-> "12 Elm St"]}

isGenerateDisabled(form) == form.targetAddress = ""

\* Up to the fetch of /api/contracts.
submitted(c, n) ==
    postTelemetry(
        [c EXCEPT !.page.pc = "generating",
                  !.page.isSubmitting = TRUE,
                  !.page.runs = Append(@, [d \in DocTypes |-> "none"])],
        contract_attempt(n))

\* The response of /api/contracts has arrived, or the fetch has failed: the
\* two compilations start, or the outer catch and finally run.
generated(c, n, ok) ==
    IF ok
    THEN [c EXCEPT !.page.pc = "compiling",
                   !.page.isCompilingPdf = TRUE,
                   !.page.runs[n] = [d \in DocTypes |-> "pending"]]
    ELSE postTelemetry(
             [c EXCEPT !.page.pc = "idle", !.page.isSubmitting = FALSE],
             contract_failure(n, Property, Str("Contract generation failed.")))

\* One compileLatexToPdf call of the n-th submission settles.
compiled(c, n, docType, ok) ==
    postTelemetry(
        [c EXCEPT !.page.runs[n][docType] = IF ok THEN "compiled" ELSE "failed"],
        IF ok
        THEN pdf_compiled(n, Str(docType), 100, Str("initial"))
        ELSE pdf_compile_failure(n, Property, Str(docType), Str("LaTeX error"),
                                 Str("initial")))

\* handleSubmit is waiting at Promise.all of the n-th submission.
awaitsCompilations(c, n) == c.page.pc = "compiling" /\ n = Len(c.page.runs)

\* The inner catch and the two finally blocks.
compilationRejected(c, n) ==
    postTelemetry(
        [c EXCEPT !.page.pc = "idle",
                  !.page.isCompilingPdf = FALSE,
                  !.page.isSubmitting = FALSE],
        contract_failure(n, Property, Str("LaTeX error")))

\* The rest of the inner try and the two finally blocks.
compilationsFulfilled(c, n, eager) ==
    LET added == addEntry(c, n, eager)
        cached == postTelemetry(added, pdf_cached(n, added.returned.value))
    IN  postTelemetry(
            [cached EXCEPT !.page.pc = "idle",
                           !.page.isCompilingPdf = FALSE,
                           !.page.isSubmitting = FALSE],
            contract_success(n, 100))

\* Faulty variant: every compilation that fails is reported as a failure of
\* the contract, also after handleSubmit has gone on.
resumedAfterEveryCompilation(c, n, docType, ok, eager) ==
    CASE ~ok -> compilationRejected(c, n)
      [] ok /\ awaitsCompilations(c, n)
            /\ c.page.runs[n][OtherDocType(docType)] = "compiled" ->
            compilationsFulfilled(c, n, eager)
      [] OTHER -> c

\* Promise.all after one of its two promises has settled: it rejects with the
\* first rejection, fulfils when both are fulfilled, and has no effect once it
\* is settled.
resumed(c, n, docType, ok, eager) ==
    CASE ~awaitsCompilations(c, n) -> c
      [] ~ok -> compilationRejected(c, n)
      [] c.page.runs[n][OtherDocType(docType)] = "compiled" ->
            compilationsFulfilled(c, n, eager)
      [] OTHER -> c

(***************************************************************************)
(* The state machine.                                                      *)
(***************************************************************************)
VARIABLES
    state,      \* the module-level `state` object of telemetryStore.ts
    now,        \* Date.now() on the server
    inflight,   \* the POST requests suspended at `await request.json()`
    posted,     \* number of POST requests received so far
    request,    \* the request answered last: [method, body]
    response,   \* the response to it
    history,    \* the mutations applied so far, oldest first: [op, e]
    client,     \* the PDF cache of the client and the telemetry it posted
    held,       \* the summary a caller got from a query and still holds
    browser,    \* localStorage and the mounted usePdfCache instances
    scenario    \* the kind of run

vars ==
    <<state, now, inflight, posted, request, response, history, client, held,
      browser, scenario>>

NoRequest == [method |-> "none", body |-> OtherBody("none")]
NoResponse == Response(0, FALSE, "", None, None)

\* The state after construction, in a run of scenario sc.
Start(sc) ==
    /\ scenario = sc
    /\ now = 0
    /\ state = InitialState(now)
    /\ inflight = {}
    /\ posted = 0
    /\ request = NoRequest
    /\ response = NoResponse
    /\ history = <<>>
    /\ client = NewCache
    /\ held = NothingHeld
    /\ browser = NewBrowser

Init == \E sc \in Scenarios : Start(sc)

NumClears == Cardinality({i \in DOMAIN history : history[i].op = "clear"})

\* The r-th POST request arrives; the handler suspends at `await request.json()`.
PostReceive ==
    /\ posted + NumClears < MaxRequests(scenario)
    /\ Cardinality(inflight) < Concurrency(scenario)
    /\ posted' = posted + 1
    /\ inflight' = inflight \cup {posted + 1}
    /\ UNCHANGED <<state, now, request, response, history, client, held, browser, scenario>>

\* request.json() of the r-th request yields body (or throws): the rest of
\* POST runs to completion.
PostResume(r, body, thrown) ==
    LET done == POST(state, body, now, thrown)
    IN  /\ r \in inflight
        /\ inflight' = inflight \ {r}
        /\ state' = done.state
        /\ request' = [method |-> "POST", body |-> body]
        /\ response' = done.response
        /\ history' = IF done.response.status = 200
                      THEN Append(history, [op |-> "record", e |-> body.fields])
                      ELSE history
        /\ held' = IF done.response.status = 200
                   THEN seenAfter(held, [op |-> "record", e |-> body.fields], done.state)
                   ELSE held
        /\ UNCHANGED <<now, posted, client, browser, scenario>>

Get ==
    LET done == GET(state)
    IN  /\ state' = done.state
        /\ request' = [method |-> "GET", body |-> OtherBody("none")]
        /\ response' = done.response
        /\ held' = IF Holds(scenario) THEN hold(done.response.summary[1]) ELSE held
        /\ UNCHANGED <<now, inflight, posted, history, client, browser, scenario>>

Delete ==
    LET done == DELETE(state, now)
    IN  /\ Clears(scenario)
        /\ posted + NumClears < MaxRequests(scenario)
        /\ state' = done.state
        /\ request' = [method |-> "DELETE", body |-> OtherBody("none")]
        /\ response' = done.response
        /\ history' = Append(history, [op |-> "clear", e |-> NoFields])
        /\ held' = seenAfter(held, [op |-> "clear", e |-> NoFields], done.state)
        /\ UNCHANGED <<now, inflight, posted, client, browser, scenario>>

\* Time passes.
Tick ==
    /\ now < Clock(scenario)
    /\ now' = now + 1
    /\ UNCHANGED <<state, inflight, posted, request, response, history, client, held,
                   browser, scenario>>

\* The part of handleSubmit that caches the compiled PDFs and reports the
\* cache size; the request of postTelemetry reaches the endpoint.
handleSubmit(eager) ==
    LET added == addEntry(client, posted + 1, eager)
        event == pdf_cached(posted + 1, added.returned.value)
    IN  /\ scenario = "client"
        /\ client.calls < MaxClientCalls
        /\ eager => client.queue = <<>>
        /\ client' = postTelemetry(added, event)
        /\ posted' = posted + 1
        /\ inflight' = inflight \cup {posted + 1}
        /\ UNCHANGED <<state, now, request, response, history, held, browser, scenario>>

\* handleClearCache of the dashboard, clearPdfCache of the contract page.
handleClearCache(eager) ==
    LET emptied == clearCache(client, eager)
        cleared == emptied.returned.value
        event == pdf_cache_cleared(posted + 1, cleared)
    IN  /\ scenario = "client"
        /\ client.calls < MaxClientCalls
        /\ eager => client.queue = <<>>
        /\ IF cleared > 0
           THEN /\ client' = postTelemetry(emptied, event)
                /\ posted' = posted + 1
                /\ inflight' = inflight \cup {posted + 1}
           ELSE /\ client' = emptied
                /\ UNCHANGED <<posted, inflight>>
        /\ UNCHANGED <<state, now, request, response, history, held, browser, scenario>>

\* handleSubmit of the contract page, up to its first await.
handleSubmitBegins(form) ==
    /\ scenario = "submission"
    /\ Len(client.page.runs) < MaxSubmissions
    /\ ~client.page.isSubmitting
    /\ ~isGenerateDisabled(form)
    /\ client' = submitted(client, Len(client.page.runs) + 1)
    /\ UNCHANGED <<state, now, inflight, posted, request, response, history, held,
                   browser, scenario>>

\* The fetch of /api/contracts settles and handleSubmit goes on.
handleSubmitGenerated(ok) ==
    /\ client.page.pc = "generating"
    /\ client' = generated(client, Len(client.page.runs), ok)
    /\ UNCHANGED <<state, now, inflight, posted, request, response, history, held,
                   browser, scenario>>

\* A compileLatexToPdf call of the n-th submission settles; handleSubmit goes
\* on if Promise.all settles with it.
compileLatexToPdf(n, docType, ok, eager) ==
    /\ n \in 1..Len(client.page.runs)
    /\ client.page.runs[n][docType] = "pending"
    /\ eager => client.queue = <<>>
    /\ client' = resumed(compiled(client, n, docType, ok), n, docType, ok, eager)
    /\ UNCHANGED <<state, now, inflight, posted, request, response, history, held,
                   browser, scenario>>

\* addEntry is called in view v.
addEntryIn(v, eager) ==
    LET newEntry == PdfCacheEntry(browser.changes + 1, browser.changes + 1)
    IN  /\ scenario = "views"
        /\ browser.changes < MaxChanges
        /\ eager => browser.views[v].queue = <<>>
        /\ browser' = setEntriesOf(browser, v, [op |-> "add", entry |-> newEntry], eager)
        /\ UNCHANGED <<state, now, inflight, posted, request, response, history,
                       client, held, scenario>>

\* clearCache is called in view v.
clearCacheIn(v, eager) ==
    /\ scenario = "views"
    /\ browser.changes < MaxChanges
    /\ eager => browser.views[v].queue = <<>>
    /\ browser' = setEntriesOf(browser, v,
                                [op |-> "clear", entry |-> PdfCacheEntry(0, 0)], eager)
    /\ UNCHANGED <<state, now, inflight, posted, request, response, history,
                   client, held, scenario>>

\* The browser delivers a storage event to view v: handleStorage.
handleStorage(v) ==
    /\ browser.views[v].events > 0
    /\ browser' = [browser EXCEPT
                      !.views[v].events = @ - 1,
                      !.views[v].queue =
                          Append(@, [op |-> "set", value |-> readCache(browser)])]
    /\ UNCHANGED <<state, now, inflight, posted, request, response, history,
                   client, held, scenario>>

\* React renders view v.
RenderView(v) ==
    /\ browser.views[v].queue # <<>>
    /\ browser' = renderView(browser, v)
    /\ UNCHANGED <<state, now, inflight, posted, request, response, history,
                   client, held, scenario>>

\* React renders the component.
Render ==
    /\ client.queue # <<>>
    /\ client' = render(client)
    /\ UNCHANGED <<state, now, inflight, posted, request, response, history, held,
                   browser, scenario>>

\* The bodies the r-th request may carry: what the client posted, in a run of
\* the client.
BodiesOf(r) ==
    IF scenario = "client" THEN {client.outbox[r]} ELSE Bodies(scenario, r)

Next ==
    \/ PostReceive
    \/ \E r \in inflight :
         \E body \in BodiesOf(r), thrown \in JsonSyntaxErrors :
            PostResume(r, body, thrown)
    \/ Get
    \/ Delete
    \/ Tick
    \/ \E eager \in BOOLEAN : handleSubmit(eager)
    \/ \E eager \in BOOLEAN : handleClearCache(eager)
    \/ Render
    \/ \E form \in Forms : handleSubmitBegins(form)
    \/ \E ok \in BOOLEAN : handleSubmitGenerated(ok)
    \/ \E n \in 1..MaxSubmissions, docType \in DocTypes, ok, eager \in BOOLEAN :
         compileLatexToPdf(n, docType, ok, eager)

Spec == Init /\ [][Next]_vars

(***************************************************************************)
(* The pages of the client on their own, with the promises of their        *)
(* fetches settling in the end and React rendering what it has queued.     *)
(***************************************************************************)
CompilationSettles ==
    \E n \in 1..MaxSubmissions, docType \in DocTypes, ok, eager \in BOOLEAN :
        compileLatexToPdf(n, docType, ok, eager)

GenerationSettles == \E ok \in BOOLEAN : handleSubmitGenerated(ok)

PageInit == Start("submission")

PageNext ==
    \/ \E form \in Forms : handleSubmitBegins(form)
    \/ GenerationSettles
    \/ CompilationSettles
    \/ Render

PageSpec ==
    /\ PageInit
    /\ [][PageNext]_vars
    /\ WF_vars(GenerationSettles)
    /\ WF_vars(CompilationSettles)
    /\ WF_vars(Render)

(***************************************************************************)
(* The views of the PDF cache on their own: the browser delivers every     *)
(* storage event and React renders every view that has something queued.   *)
(***************************************************************************)
ViewsInit == Start("views")

ViewsNext ==
    \/ \E v \in Views, eager \in BOOLEAN : addEntryIn(v, eager)
    \/ \E v \in Views, eager \in BOOLEAN : clearCacheIn(v, eager)
    \/ \E v \in Views : handleStorage(v)
    \/ \E v \in Views : RenderView(v)

ViewsSpec ==
    /\ ViewsInit
    /\ [][ViewsNext]_vars
    /\ \A v \in Views : WF_vars(handleStorage(v)) /\ WF_vars(RenderView(v))

(***************************************************************************)
(* What the history of applied mutations says the store should hold.       *)
(***************************************************************************)
LastN(seq, n) == SubSeq(seq, Len(seq) - Min(Len(seq), n) + 1, Len(seq))
Reverse(seq) == [i \in 1..Len(seq) |-> seq[Len(seq) + 1 - i]]

\* The events applied so far, oldest first.
AppliedEvents ==
    LET records == SelectSeq(history, LAMBDA h : h.op = "record")
    IN  [i \in 1..Len(records) |-> records[i].e]

\* The events of the given kinds applied so far.
AppliedOf(types) == SelectSeq(AppliedEvents, LAMBDA e : e.type.s \in types)

\* This step applies an event, which is LatestEvent afterwards.
AppliesEvent ==
    /\ Len(history') = Len(history) + 1
    /\ history'[Len(history')].op = "record"

LatestEvent == history'[Len(history')].e

\* This step is the rest of a POST handler, answering request'.
AnswersPost == inflight' # inflight /\ inflight' \subseteq inflight

\* This step is a clearTelemetryErrors call.
ClearsErrors ==
    /\ Len(history') = Len(history) + 1
    /\ history'[Len(history')].op = "clear"

Counters ==
    {"contractAttempts", "contractSuccesses", "contractFailures",
     "pdfCompilations", "pdfCompilationFailures", "pdfDownloads"}

\* The counter an event kind is counted in, "" for the kinds that are not counted.
CounterOfKind(type) ==
    CASE type = "contract_attempt" -> "contractAttempts"
      [] type = "contract_success" -> "contractSuccesses"
      [] type = "contract_failure" -> "contractFailures"
      [] type = "pdf_compiled" -> "pdfCompilations"
      [] type = "pdf_compile_failure" -> "pdfCompilationFailures"
      [] type = "pdf_downloaded" -> "pdfDownloads"
      [] OTHER -> ""

(***************************************************************************)
(* C1.  No step (recordTelemetryEvent, clearTelemetryErrors,               *)
(* getTelemetrySummary, or any other) lowers one of the six counters.      *)
(***************************************************************************)
CountersNeverDecrease ==
    [][\A c \in Counters : state'[c] >= state[c]]_vars

\* A query that follows a clear that follows counted failures.
CountersSurviveClear ==
    /\ state.contractFailures >= 1
    /\ state.contractAttempts >= 1
    /\ history[Len(history)].op = "clear"
    /\ request.method = "GET"

(***************************************************************************)
(* C2.  Applying an event adds 1 to the counter of its kind and leaves the *)
(* other counters alone (pdf_cached and pdf_cache_cleared change none);    *)
(* so each counter is the number of events of its kind applied so far.     *)
(***************************************************************************)
EachEventCountedOnce ==
    /\ [][AppliesEvent =>
            \A c \in Counters :
                state'[c] = state[c] + (IF CounterOfKind(LatestEvent.type.s) = c
                                        THEN 1 ELSE 0)]_vars
    /\ [](\A type \in KnownTypes :
            CounterOfKind(type) # "" =>
                state[CounterOfKind(type)] = Len(AppliedOf({type})))

\* Two events of one kind with an event of another kind between them.
CountedWithInterleaving ==
    /\ Len(history) = 3
    /\ state.contractSuccesses = 2
    /\ history[2].op = "record"
    /\ history[2].e.type.s = "pdf_cached"

SamplesOf(type) ==
    LET events == AppliedOf({type})
    IN  [i \in 1..Len(events) |-> events[i].durationMs.n]

(***************************************************************************)
(* C3.  contractDurations (pdfDurations) holds the durationMs of the last  *)
(* min(n, 50) contract_success (pdf_compiled) events, in the order they    *)
(* were applied; a push into a full buffer evicts the oldest sample only.  *)
(***************************************************************************)
BuffersHoldLatestSamples ==
    /\ [](/\ Len(state.contractDurations) <= 50
          /\ Len(state.pdfDurations) <= 50
          /\ state.contractDurations = LastN(SamplesOf("contract_success"), 50)
          /\ state.pdfDurations = LastN(SamplesOf("pdf_compiled"), 50))
    /\ [][\A buffer \in {"contractDurations", "pdfDurations"} :
            (Len(state[buffer]) = 50 /\ state'[buffer] # state[buffer]) =>
                /\ AppliesEvent
                /\ state'[buffer] = Tail(state[buffer]) \o <<LatestEvent.durationMs.n>>]_vars

\* Two samples have been evicted from the buffer of pdf durations.
PdfSamplesEvicted ==
    /\ state.pdfCompilations = 52
    /\ Len(state.pdfDurations) = 50

ActivityKinds ==
    {"contract_success", "contract_failure", "pdf_compiled", "pdf_compile_failure"}
FailureKinds == {"contract_failure", "pdf_compile_failure"}

\* What identifies the entry an event leaves in a log.
EntryOfEvent(e) ==
    [timestamp |-> e.timestamp.n,
     origin |-> IF e.type.s \in {"contract_success", "contract_failure"}
                THEN "contract" ELSE "pdf",
     status |-> IF e.type.s \in FailureKinds THEN "failure" ELSE "success"]

EntryOfActivity(a) ==
    [timestamp |-> a.timestamp,
     origin |-> IF a.kind = "contract" THEN "contract" ELSE "pdf",
     status |-> a.status]

EntryOfError(err) ==
    [timestamp |-> err.timestamp, origin |-> err.source, status |-> "failure"]

\* The failures applied since the last clear, oldest first.
FailuresSinceClear ==
    LET clears == {i \in DOMAIN history : history[i].op = "clear"}
        from == IF clears = {} THEN 1
                ELSE 1 + CHOOSE i \in clears : \A j \in clears : j <= i
        recent == SubSeq(history, from, Len(history))
        failures == SelectSeq(recent, LAMBDA h : h.e.type.s \in FailureKinds)
    IN  [i \in 1..Len(failures) |-> EntryOfEvent(failures[i].e)]

ActivitySoFar ==
    LET events == AppliedOf(ActivityKinds)
    IN  [i \in 1..Len(events) |-> EntryOfEvent(events[i])]

(***************************************************************************)
(* C4.  recentActivity holds at most 16 entries and recentErrors at most   *)
(* 10, newest first: recentActivity lists the latest events that write to  *)
(* it, and recentErrors the latest failures applied since the log was last *)
(* cleared, each in reverse order of application; a full log loses its     *)
(* oldest entry.                                                           *)
(***************************************************************************)
LogsNewestFirstAndBounded ==
    /\ Len(state.recentActivity) <= 16
    /\ Len(state.recentErrors) <= 10
    /\ [i \in 1..Len(state.recentActivity) |-> EntryOfActivity(state.recentActivity[i])]
         = Reverse(LastN(ActivitySoFar, 16))
    /\ [i \in 1..Len(state.recentErrors) |-> EntryOfError(state.recentErrors[i])]
         = Reverse(LastN(FailuresSinceClear, 10))

\* The error log is full, has dropped entries, and mixes both sources.
ErrorLogOverflowed ==
    /\ Len(state.recentErrors) = 10
    /\ state.contractFailures >= 1
    /\ state.pdfCompilationFailures >= 1
    /\ state.contractFailures + state.pdfCompilationFailures = 12

LastReportedCacheSize ==
    LET reports == AppliedOf({"pdf_cached", "pdf_cache_cleared"})
        last == reports[Len(reports)]
    IN  IF reports = <<>> \/ last.type.s = "pdf_cache_cleared" THEN 0
        ELSE IF last.cacheSize.n > 0 THEN last.cacheSize.n
        ELSE 0

(***************************************************************************)
(* C5.  pdfCacheEntries is never negative and is max(0, cacheSize) of the  *)
(* pdf_cached event applied last, or 0 when a pdf_cache_cleared event came *)
(* after it or no pdf_cached event was applied: a report overwrites the    *)
(* gauge, it is not added to it.                                           *)
(***************************************************************************)
CacheGaugeIsLastReport ==
    /\ state.pdfCacheEntries >= 0
    /\ state.pdfCacheEntries = LastReportedCacheSize

\* pdf_cached with cacheSize 5, then pdf_cached with cacheSize 3.
CacheGaugeOverwritten ==
    /\ Len(history) = 2
    /\ history[1].e.type.s = "pdf_cached" /\ history[1].e.cacheSize.n = 5
    /\ history[2].e.type.s = "pdf_cached" /\ history[2].e.cacheSize.n = 3
    /\ state.pdfCacheEntries = 3

AppliesCacheCleared == AppliesEvent /\ LatestEvent.type.s = "pdf_cache_cleared"

(***************************************************************************)
(* C6.  Applying pdf_cache_cleared sets pdfCacheEntries to 0 and           *)
(* lastCacheClearAt to the event's timestamp, whatever its count; no other *)
(* step changes lastCacheClearAt, which is null until the first such       *)
(* event.                                                                  *)
(***************************************************************************)
CacheClearedSetsGaugeAndTime ==
    /\ [][AppliesCacheCleared =>
            /\ state'.pdfCacheEntries = 0
            /\ state'.lastCacheClearAt = Some(LatestEvent.timestamp.n)]_vars
    /\ [][~AppliesCacheCleared =>
            state'.lastCacheClearAt = state.lastCacheClearAt]_vars
    /\ [](AppliedOf({"pdf_cache_cleared"}) = <<>> => state.lastCacheClearAt = None)

\* A cache clear, then a clearTelemetryErrors, then another event, have left
\* the time of the cache clear in place.
CacheClearTimeKept ==
    /\ Len(history) = 3
    /\ history[1].e.type.s = "pdf_cache_cleared"
    /\ history[2].op = "clear"
    /\ history[3].e.type.s = "pdf_cached"
    /\ state.lastCacheClearAt = Some(history[1].e.timestamp.n)
    /\ history[1].e.count.n # history[1].e.timestamp.n

IsString(v) == v.k = "string"
IsNumber(v) == v.k = "number"
IsDocType(v) == v.k = "string" /\ v.s \in {"acquisition", "investor"}

RequiredFieldsWellTyped(body) ==
    LET e == body.fields
        type == e.type.s
    IN  /\ body.shape = "object"
        /\ IsString(e.type)
        /\ type \in KnownTypes
        /\ IsNumber(e.timestamp)
        /\ type = "contract_attempt" => IsString(e.property)
        /\ type = "contract_success" => IsString(e.property) /\ IsNumber(e.durationMs)
        /\ type = "pdf_compiled" =>
              IsString(e.property) /\ IsDocType(e.docType) /\ IsNumber(e.durationMs)
        /\ type = "pdf_cached" => IsString(e.property) /\ IsNumber(e.cacheSize)
        /\ type = "pdf_cache_cleared" => IsNumber(e.count)
        /\ type = "pdf_downloaded" => IsString(e.property) /\ IsDocType(e.docType)

\* The payload the endpoint answered last was decoded from JSON.
AnsweredPayload == request.method = "POST" /\ request.body.shape # "malformed"

(***************************************************************************)
(* C7.  isTelemetryEvent accepts a payload only if it is a non-null object *)
(* whose type is one of the eight kinds, whose timestamp is a number and   *)
(* whose fields required by that kind are present with the right type.     *)
(***************************************************************************)
ValidatorAcceptsOnlyWellFormed ==
    AnsweredPayload =>
        /\ isTelemetryEvent(request.body) => RequiredFieldsWellTyped(request.body)
        /\ response.status = 200 <=> isTelemetryEvent(request.body)

\* A well-formed pdf_compiled event has been accepted.
PdfCompiledAccepted ==
    /\ AnsweredPayload
    /\ scenario = "probe"
    /\ request.body.fields.type = Str("pdf_compiled")
    /\ response.status = 200

IsVariant(v) == v.k = "string" /\ v.s \in {"initial", "recompile"}

OptionalFieldsWellTyped(e) ==
    LET type == e.type.s
    IN  /\ type \in FailureKinds =>
              /\ e.property = Undef \/ IsString(e.property)
              /\ e.reason = Undef \/ IsString(e.reason)
        /\ type = "pdf_compile_failure" =>
              /\ e.docType = Undef \/ IsDocType(e.docType)
              /\ e.variant = Undef \/ IsVariant(e.variant)
        /\ type = "pdf_compiled" => e.variant = Undef \/ IsVariant(e.variant)

(***************************************************************************)
(* C8.  isTelemetryEvent rejects an event with an optional field of the    *)
(* wrong type (property, reason, docType, variant of the failure events,   *)
(* variant of pdf_compiled), so that no such event is ever applied.        *)
(***************************************************************************)
NoMistypedOptionalFieldApplied ==
    \A i \in 1..Len(AppliedEvents) : OptionalFieldsWellTyped(AppliedEvents[i])

(***************************************************************************)
(* C9.  A POST whose payload isTelemetryEvent rejects is answered with     *)
(* status 400 and leaves the whole aggregate state as it was.              *)
(***************************************************************************)
RejectedPayloadChangesNothing ==
    [][(/\ AnswersPost
        /\ request'.body.shape # "malformed"
        /\ ~isTelemetryEvent(request'.body)) =>
            /\ response'.status = 400
            /\ state' = state
            /\ history' = history]_vars

\* The pdf_compiled payload without docType and durationMs has been rejected
\* by a store that holds an error.
TruncatedPayloadRejected ==
    /\ request.method = "POST"
    /\ request.body.fields = TruncatedPdfCompiled(request.body.fields.timestamp.n)
    /\ response.status = 400
    /\ response.error = "Invalid telemetry payload."
    /\ Len(state.recentErrors) = 1

(***************************************************************************)
(* C10.  A POST whose body is not JSON is answered with status 400 and the *)
(* message of the parse failure, and leaves the aggregate state as it was. *)
(***************************************************************************)
MalformedBodyChangesNothing ==
    [][(AnswersPost /\ request'.body.shape = "malformed") =>
            /\ response'.status = 400
            /\ response'.error \in {thrown.message : thrown \in JsonSyntaxErrors}
            /\ state' = state
            /\ history' = history]_vars

\* A body that is not JSON has been refused by a store that holds events.
MalformedBodyRefused ==
    /\ request.method = "POST"
    /\ request.body.shape = "malformed"
    /\ response.status = 400
    /\ state.contractAttempts = 1
    /\ state.contractSuccesses = 1

\* This step applies a contract_failure event.
AppliesContractFailure == AppliesEvent /\ LatestEvent.type.s = "contract_failure"

\* The name a contract_failure event gives its error entry: its property, or
\* "Contract" when it carries none.
LabelOfContractFailure(e) == IF e.property = Undef THEN "Contract" ELSE e.property.s

(***************************************************************************)
(* C11.  No entry of recentErrors has an empty message.  Applying a        *)
(* contract_failure event whose reason is absent or the empty string puts  *)
(* the entry with the message "<property> failed." at the head of          *)
(* recentErrors, and applying one with a reason puts "<property>: <reason>"*)
(* there; <property> reads "Contract" for an event without a property.     *)
(***************************************************************************)
ErrorMessagesNeverEmpty ==
    /\ [](\A i \in 1..Len(state.recentErrors) : state.recentErrors[i].message # "")
    /\ [][AppliesContractFailure =>
            LET e == LatestEvent
                label == LabelOfContractFailure(e)
            IN  state'.recentErrors[1].message =
                    IF e.reason \in {Undef, Str("")}
                    THEN label \o " failed."
                    ELSE label \o ": " \o ToText(e.reason)]_vars

\* A contract_failure whose reason is the empty string has left the fallback
\* message.
EmptyReasonGotFallback ==
    /\ Len(history) = 1
    /\ history[1].e.type.s = "contract_failure"
    /\ history[1].e.reason = Str("")
    /\ history[1].e.property = Property
    /\ state.recentErrors[1].message = "12 Elm St failed."

(***************************************************************************)
(* C12.  clearTelemetryErrors, and so DELETE, returns the number of        *)
(* entries recentErrors held before the call, leaves recentErrors empty,   *)
(* sets lastUpdated to the current time and changes nothing else in the    *)
(* state; a call that follows another with no event applied in between     *)
(* returns 0.                                                              *)
(***************************************************************************)
ClearReturnsCountAndEmptiesLog ==
    /\ [][ClearsErrors =>
            /\ response'.status = 200
            /\ response'.ok
            /\ response'.cleared = Some(Len(state.recentErrors))
            /\ state'.recentErrors = <<>>
            /\ state'.lastUpdated = now
            /\ \A field \in DOMAIN state \ {"recentErrors", "lastUpdated"} :
                    state'[field] = state[field]]_vars
    /\ [][(/\ ClearsErrors
            /\ history # <<>>
            /\ history[Len(history)].op = "clear") =>
                response'.cleared = Some(0)]_vars

\* A failure, a clear that returned 1 and, later by the clock, a second clear
\* that returned 0.
SecondClearReturnedZero ==
    /\ Len(history) = 3
    /\ history[1].e.type.s = "pdf_compile_failure"
    /\ history[2].op = "clear"
    /\ history[3].op = "clear"
    /\ request.method = "DELETE"
    /\ response.cleared = Some(0)
    /\ state.lastUpdated = 2
    /\ state.pdfCompilationFailures = 1
    /\ Len(state.recentActivity) = 1

(***************************************************************************)
(* C13.  getTelemetrySummary does not change the state: only applying an   *)
(* event and clearing the errors do.  So as long as a query is the request *)
(* answered last, a further query returns the summary that one returned,   *)
(* lastUpdated and cache.lastClearAt included.                             *)
(***************************************************************************)
QueryLeavesStateAlone ==
    /\ [][(~AppliesEvent /\ ~ClearsErrors) => state' = state]_vars
    /\ [](request.method = "GET" =>
            response.summary = Some(getTelemetrySummary(state)))

\* A query answered after events and a clear, and before the clock moved on.
QueriedAfterClockMoved ==
    /\ request.method = "GET"
    /\ Len(history) = 3
    /\ history[3].op = "clear"
    /\ response.summary # None
    /\ response.summary[1].lastUpdated = 1
    /\ response.summary[1].totals.pdfCompilationFailures = 2
    /\ now = 2

(***************************************************************************)
(* C14.  The contractSuccessRate of a summary is null exactly when         *)
(* contractAttempts is 0, and is contractSuccesses / contractAttempts      *)
(* otherwise; with successes or failures but no attempt recorded it is     *)
(* still null.                                                             *)
(***************************************************************************)
SuccessRateNullWithoutAttempts ==
    LET summary == getTelemetrySummary(state)
        rate == summary.metrics.contractSuccessRate
    IN  /\ rate = None <=> state.contractAttempts = 0
        /\ rate # None =>
              /\ rate[1].den > 0
              /\ rate[1].num * state.contractAttempts
                    = rate[1].den * state.contractSuccesses
        /\ request.method = "GET" =>
              response.summary[1].metrics.contractSuccessRate = rate

\* A query of a store with a success and a failure and no attempt.
QueriedOutcomesWithoutAttempt ==
    /\ request.method = "GET"
    /\ state.contractAttempts = 0
    /\ state.contractSuccesses = 1
    /\ state.contractFailures = 1
    /\ response.summary[1].metrics.contractSuccessRate = None

\* The samples a duration buffer should hold: those of the last 50 events.
Buffered(type) == LastN(SamplesOf(type), 50)

\* average = the sum of the samples / their number.
IsMeanOf(average, samples) ==
    /\ average.den > 0
    /\ average.num * Len(samples) = average.den * Sum(samples)

\* deviation = sqrt(sum((v - mean)^2) / (n - 1)), where
\* sum((v - mean)^2) = sum((n * v - sum(v))^2) / n^2.
IsSampleDeviationOf(deviation, samples) ==
    LET n == Len(samples)
        scaled == [i \in 1..n |-> (n * samples[i] - Sum(samples))
                                    * (n * samples[i] - Sum(samples))]
        variance == deviation.sqrtOf
    IN  /\ variance.den > 0
        /\ variance.num * (n * n * (n - 1)) = variance.den * Sum(scaled)

(***************************************************************************)
(* C15.  contractAverageMs and pdfAverageMs are null exactly when the      *)
(* buffer is empty and otherwise the arithmetic mean of the buffered       *)
(* samples, those of the last 50 events at most; pdfNetJitterMs is null    *)
(* with fewer than two pdf samples and otherwise their sample standard     *)
(* deviation, with the divisor n - 1.                                      *)
(***************************************************************************)
AveragesAndJitterOfBufferedSamples ==
    LET metrics == getTelemetrySummary(state).metrics
        contract == Buffered("contract_success")
        pdf == Buffered("pdf_compiled")
    IN  /\ metrics.contractAverageMs = None <=> contract = <<>>
        /\ metrics.contractAverageMs # None =>
              IsMeanOf(metrics.contractAverageMs[1], contract)
        /\ metrics.pdfAverageMs = None <=> pdf = <<>>
        /\ metrics.pdfAverageMs # None => IsMeanOf(metrics.pdfAverageMs[1], pdf)
        /\ metrics.pdfNetJitterMs = None <=> Len(pdf) < 2
        /\ metrics.pdfNetJitterMs # None =>
              IsSampleDeviationOf(metrics.pdfNetJitterMs[1], pdf)
        /\ request.method = "GET" => response.summary[1].metrics = metrics

\* The pdf samples 100, 200, 300: average 200, jitter sqrt(10000) = 100.
JitterOfThreeSamples ==
    /\ request.method = "GET"
    /\ state.pdfDurations = <<100, 200, 300>>
    /\ response.summary[1].metrics.pdfAverageMs = Some([num |-> 200, den |-> 1])
    /\ response.summary[1].metrics.pdfNetJitterMs
          = Some([sqrtOf |-> [num |-> 100 * 100, den |-> 1]])

\* The state that applying the given mutations, in their order, to the initial
\* state leaves, every clock reading taken as 0.
RECURSIVE Replay(_)
Replay(mutations) ==
    IF mutations = <<>>
    THEN InitialState(0)
    ELSE LET before == Replay(SubSeq(mutations, 1, Len(mutations) - 1))
             last == mutations[Len(mutations)]
         IN  IF last.op = "record"
             THEN recordTelemetryEvent(before, last.e, 0)
             ELSE clearTelemetryErrors(before, 0).state

(***************************************************************************)
(* C16.  Events are applied in the order the endpoint admits them, once    *)
(* each: apart from lastUpdated, which is a clock reading, the state is    *)
(* what applying the admitted events and the clears one after the other,   *)
(* in admission order, leaves, and a query returns the summary of exactly  *)
(* that state.                                                             *)
(***************************************************************************)
StateIsFoldOfAdmittedMutations ==
    /\ [state EXCEPT !.lastUpdated = 0] = Replay(history)
    /\ request.method = "GET" =>
          [response.summary[1] EXCEPT !.lastUpdated = 0]
              = getTelemetrySummary(Replay(history))

\* A query after the second request was admitted before the first, and a
\* clear after both.
QueriedAfterOutOfOrderAdmission ==
    /\ request.method = "GET"
    /\ Len(history) = 3
    /\ history[1].op = "record" /\ history[1].e.timestamp.n = 2
    /\ history[2].op = "record" /\ history[2].e.timestamp.n = 1
    /\ history[2].e.type.s = "contract_success"
    /\ history[3].op = "clear"
    /\ response.summary[1].lastContract # None
    /\ response.summary[1].lastContract[1].timestamp = 1

\* The parts of a summary (or of the state) that one event updates together
\* agree with each other and with the events applied so far.
UpdatedTogether(totals, lastContract, recentActivity) ==
    LET contracts == AppliedOf({"contract_success", "contract_failure"})
        logged == AppliedOf(ActivityKinds)
    IN  /\ \A type \in KnownTypes :
              CounterOfKind(type) # "" =>
                  totals[CounterOfKind(type)] = Len(AppliedOf({type}))
        /\ lastContract = None <=> contracts = <<>>
        /\ contracts # <<>> =>
              /\ lastContract[1].timestamp = contracts[Len(contracts)].timestamp.n
              /\ lastContract[1].status
                    = EntryOfEvent(contracts[Len(contracts)]).status
        /\ Len(recentActivity) = Min(Len(logged), 16)
        /\ logged # <<>> =>
              EntryOfActivity(recentActivity[1]) = EntryOfEvent(logged[Len(logged)])

AnswersAcceptedFailure ==
    /\ AnswersPost
    /\ request'.body.shape # "malformed"
    /\ isTelemetryEvent(request'.body)
    /\ request'.body.fields.type.s \in FailureKinds

Settled(cache) == applyQueue(cache.entries, cache.queue)

\* This step is a call of addEntry or of clearCache.
CallsCache == client'.calls = client.calls + 1

\* The telemetry body posted last.
LastPosted(cache) == cache.outbox[Len(cache.outbox)].fields

(***************************************************************************)
(* C20.  addEntry puts the new entry at index 0 of the entry list and      *)
(* returns the number of entries the cache holds with it; clearCache       *)
(* empties the list and returns the number of entries it removed; the      *)
(* callers report these return values as cacheSize of pdf_cached and as    *)
(* count of pdf_cache_cleared.                                             *)
(***************************************************************************)
CacheCallsReturnCounts ==
    /\ [][(CallsCache /\ client'.returned.call = "addEntry") =>
            /\ Settled(client') # <<>>
            /\ Tail(Settled(client')) = Settled(client)
            /\ Settled(client')[1].id = client'.calls
            /\ client'.returned.value = Len(Settled(client'))
            /\ LastPosted(client').type = Str("pdf_cached")
            /\ LastPosted(client').cacheSize = Num(client'.returned.value)]_vars
    /\ [][(CallsCache /\ client'.returned.call = "clearCache") =>
            /\ Settled(client') = <<>>
            /\ client'.returned.value = Len(Settled(client))
            /\ client'.returned.value > 0 =>
                  /\ LastPosted(client').type = Str("pdf_cache_cleared")
                  /\ LastPosted(client').count = Num(client'.returned.value)]_vars

\* What applying a contract_failure event does, the error message naming the
\* event's property, or `unnamed` for an event that carries none.
ContractFailureRecorded(unnamed) ==
    LET e == LatestEvent
        property == IF e.property = Undef THEN "Unspecified" ELSE e.property.s
        named == IF e.property = Undef THEN unnamed ELSE e.property.s
    IN  /\ state'.contractFailures = state.contractFailures + 1
        /\ state'.lastContract =
              Some([property |-> property, status |-> "failure",
                    timestamp |-> e.timestamp.n, durationMs |-> Undef])
        /\ state'.recentActivity[1] =
              Activity("contract", property, "failure", e.timestamp.n,
                       Undef, Undef, e.reason, Undef)
        /\ state'.recentErrors[1].source = "contract"
        /\ state'.recentErrors[1].message =
              IF e.reason \in {Undef, Str("")}
              THEN named \o " failed."
              ELSE named \o ": " \o ToText(e.reason)

(***************************************************************************)
(* C22, as stated.  Applying a contract_failure event increments           *)
(* contractFailures, takes "Unspecified" for the property of an event that *)
(* carries none, sets lastContract to that property, status failure and    *)
(* the event's timestamp without durationMs, puts a contract-kind failure  *)
(* entry with the reason as detail at the head of recentActivity, and puts *)
(* at the head of recentErrors a message that combines that same property  *)
(* with the reason.                                                        *)
(***************************************************************************)
ContractFailureNamesSameProperty ==
    [][AppliesContractFailure => ContractFailureRecorded("Unspecified")]_vars

(***************************************************************************)
(* C22, amended.  As above, except that the message at the head of         *)
(* recentErrors names the event's property, or "Contract" when the event   *)
(* carries none: the placeholder "Unspecified" appears in lastContract and *)
(* in recentActivity only.                                                 *)
(***************************************************************************)
ContractFailureNamesContract ==
    [][AppliesContractFailure => ContractFailureRecorded("Contract")]_vars

\* A contract_failure without a property and with a reason has been applied.
UnnamedContractFailureApplied ==
    /\ Len(history) = 1
    /\ history[1].e.type.s = "contract_failure"
    /\ history[1].e.property = Undef
    /\ history[1].e.reason = Str("timeout")
    /\ state.lastContract # None
    /\ state.lastContract[1].property = "Unspecified"
    /\ state.recentErrors[1].message = "Contract: timeout"

\* This step applies a pdf_compile_failure event.
AppliesPdfCompileFailure == AppliesEvent /\ LatestEvent.type.s = "pdf_compile_failure"

\* The scope label of a pdf_compile_failure event: those of its property,
\* "PDF <DOCTYPE>" and "Recompile" that are present, joined by " / ", and
\* "PDF" when none is.
ScopeOf(e) ==
    LET property == IF e.property \in {Undef, Str("")} THEN <<>> ELSE <<e.property.s>>
        docType == CASE e.docType = Str("acquisition") -> <<"PDF ACQUISITION">>
                     [] e.docType = Str("investor") -> <<"PDF INVESTOR">>
                     [] OTHER -> <<>>
        variant == IF e.variant = Str("recompile") THEN <<"Recompile">> ELSE <<>>
        parts == property \o docType \o variant
    IN  CASE Len(parts) = 0 -> "PDF"
          [] Len(parts) = 1 -> parts[1]
          [] Len(parts) = 2 -> parts[1] \o " / " \o parts[2]
          [] OTHER -> parts[1] \o " / " \o parts[2] \o " / " \o parts[3]

\* What applying a pdf_compile_failure event does, `marked` being what the
\* message of a recompilation ends with.
PdfCompileFailureRecorded(marked) ==
    LET e == LatestEvent
        text == IF e.reason \in {Undef, Str("")}
                THEN ScopeOf(e) \o ": compile failure."
                ELSE ScopeOf(e) \o ": " \o ToText(e.reason)
    IN  /\ state'.pdfCompilationFailures = state.pdfCompilationFailures + 1
        /\ state'.recentErrors[1].source = "pdf"
        /\ state'.recentErrors[1].timestamp = e.timestamp.n
        /\ state'.recentErrors[1].message =
              IF e.variant = Str("recompile") THEN text \o marked ELSE text
        /\ state'.recentActivity[1].kind = "compile"
        /\ state'.recentActivity[1].status = "failure"
        /\ state'.recentActivity[1].timestamp = e.timestamp.n
        /\ state'.recentActivity[1].property =
              IF e.property = Undef THEN "Unspecified" ELSE e.property.s

(***************************************************************************)
(* C23, as stated.  Applying a pdf_compile_failure event increments        *)
(* pdfCompilationFailures and puts at the head of recentErrors an entry    *)
(* with source pdf whose message is exactly "<scope>: <reason>", or        *)
(* "<scope>: compile failure." without a reason, <scope> joining those of  *)
(* the property, "PDF <DOCTYPE>" and "Recompile" that are present; and it  *)
(* puts a compile-kind failure entry, its property defaulting to           *)
(* "Unspecified", at the head of recentActivity.                           *)
(***************************************************************************)
PdfFailureMessageIsScopeAndReason ==
    [][AppliesPdfCompileFailure => PdfCompileFailureRecorded("")]_vars

(***************************************************************************)
(* C23, amended.  As above, except that the message of an event whose      *)
(* variant is recompile ends with " (Recompile)" after the reason or the   *)
(* fallback text; the parts of <scope> are joined by " / " and <scope> is  *)
(* "PDF" when none of them is present.                                     *)
(***************************************************************************)
PdfFailureMessageMarksRecompile ==
    [][AppliesPdfCompileFailure => PdfCompileFailureRecorded(" (Recompile)")]_vars

\* A failed recompilation with a property, a document type and a reason has
\* been applied.
RecompileFailureApplied ==
    /\ Len(history) = 1
    /\ history[1].e.type.s = "pdf_compile_failure"
    /\ state.pdfCompilationFailures = 1
    /\ state.recentErrors[1].message
          = "12 Elm St / PDF INVESTOR / Recompile: HTTP 500 (Recompile)"
    /\ state.recentActivity[1].property = "12 Elm St"

ContractOutcomes == {"contract_success", "contract_failure"}

\* This step applies a contract_success event.
AppliesContractSuccess == AppliesEvent /\ LatestEvent.type.s = "contract_success"

(***************************************************************************)
(* C24.  Applying a contract_success event increments contractSuccesses,   *)
(* pushes its durationMs into contractDurations, sets lastContract to the  *)
(* event's property, status success, timestamp and durationMs, and puts a  *)
(* contract-kind success entry at the head of recentActivity.  Only        *)
(* contract_success and contract_failure events change lastContract, which *)
(* so describes the one of them applied last: contract_attempt, the pdf    *)
(* events and clearTelemetryErrors leave it as it was.                     *)
(***************************************************************************)
LastContractIsLatestOutcome ==
    /\ [][AppliesContractSuccess =>
            LET e == LatestEvent
                pushed == state.contractDurations \o <<e.durationMs.n>>
            IN  /\ state'.contractSuccesses = state.contractSuccesses + 1
                /\ state'.contractDurations = LastN(pushed, 50)
                /\ state'.lastContract =
                      Some([property |-> e.property.s, status |-> "success",
                            timestamp |-> e.timestamp.n, durationMs |-> e.durationMs])
                /\ state'.recentActivity[1] =
                      Activity("contract", e.property.s, "success", e.timestamp.n,
                               e.durationMs, Undef, Undef, Undef)]_vars
    /\ [][~(AppliesEvent /\ LatestEvent.type.s \in ContractOutcomes) =>
            state'.lastContract = state.lastContract]_vars
    /\ [](LET outcomes == AppliedOf(ContractOutcomes)
              last == outcomes[Len(outcomes)]
          IN  IF outcomes = <<>>
              THEN state.lastContract = None
              ELSE /\ state.lastContract # None
                   /\ state.lastContract[1].timestamp = last.timestamp.n
                   /\ state.lastContract[1].status = EntryOfEvent(last).status
                   /\ state.lastContract[1].durationMs = last.durationMs)

\* A success, then a failed compilation, then a clear: lastContract is still
\* the success.
LastContractSurvivedClear ==
    /\ Len(history) = 3
    /\ history[1].e.type.s = "contract_success"
    /\ history[2].e.type.s = "pdf_compile_failure"
    /\ history[3].op = "clear"
    /\ state.lastContract # None
    /\ state.lastContract[1].status = "success"
    /\ state.lastContract[1].timestamp = history[1].e.timestamp.n
    /\ state.lastContract[1].durationMs = Num(300)

\* This step is a recordTelemetryEvent or a clearTelemetryErrors call.
Mutates == AppliesEvent \/ ClearsErrors

(***************************************************************************)
(* C25.  Every recordTelemetryEvent call, whatever the kind of the event   *)
(* and whether or not it changes another field, and every                  *)
(* clearTelemetryErrors call set lastUpdated to the current reading of the *)
(* clock; no other step (a query, a rejected or malformed POST, a request  *)
(* arriving, time passing) changes it.  The clock never going back,        *)
(* lastUpdated never decreases.                                            *)
(***************************************************************************)
LastUpdatedSetByMutationsOnly ==
    /\ [][Mutates => state'.lastUpdated = now]_vars
    /\ [][~Mutates => state'.lastUpdated = state.lastUpdated]_vars
    /\ [][state'.lastUpdated >= state.lastUpdated]_vars

\* A pdf_cached event that changes no other field has been applied when the
\* clock read 2.
IdleEventRefreshedLastUpdated ==
    /\ Len(history) = 1
    /\ history[1].e.type.s = "pdf_cached"
    /\ history[1].e.cacheSize.n = -2
    /\ now = 2
    /\ state = [InitialState(0) EXCEPT !.lastUpdated = 2]

RateWithinUnitInterval(st) ==
    LET rate == getTelemetrySummary(st).metrics.contractSuccessRate
    IN  rate # None => 0 <= rate[1].num /\ rate[1].num <= rate[1].den

(***************************************************************************)
(* C27, as stated.  In every reachable state contractSuccesses +           *)
(* contractFailures <= contractAttempts, and so contractSuccessRate, when  *)
(* it is not null, lies between 0 and 1.                                   *)
(***************************************************************************)
OutcomesNeverExceedAttempts ==
    /\ state.contractSuccesses + state.contractFailures <= state.contractAttempts
    /\ RateWithinUnitInterval(state)

(***************************************************************************)
(* C27, amended.  The store counts each kind of event on its own: nothing  *)
(* keeps contractSuccesses + contractFailures at or below                  *)
(* contractAttempts.  contractSuccessRate, when it is not null, is never   *)
(* negative, and it is at most 1 exactly when contractSuccesses <=         *)
(* contractAttempts.                                                       *)
(***************************************************************************)
RateBoundedOnlyByAttempts ==
    LET rate == getTelemetrySummary(state).metrics.contractSuccessRate
    IN  rate # None =>
          /\ rate[1].den > 0
          /\ rate[1].num >= 0
          /\ rate[1].num <= rate[1].den
                <=> state.contractSuccesses <= state.contractAttempts

\* A query of a store with two successes and one attempt returns the rate 2.
QueriedRateAboveOne ==
    /\ request.method = "GET"
    /\ state.contractAttempts = 1
    /\ state.contractSuccesses = 2
    /\ response.summary[1].metrics.contractSuccessRate = Some([num |-> 2, den |-> 1])

(***************************************************************************)
(* C28.  A summary that getTelemetrySummary returned stays as it was       *)
(* returned: no later recordTelemetryEvent or clearTelemetryErrors call    *)
(* alters its totals, metrics, cache, lastContract, recentActivity or      *)
(* recentErrors, although it has the last three in common with the store   *)
(* when it is returned.                                                    *)
(***************************************************************************)
HeldSummaryIsStable ==
    /\ [][(held.summary # None /\ Mutates) => held'.summary = held.summary]_vars
    /\ [][(Holds(scenario) /\ request' # request /\ request'.method = "GET") =>
            /\ held'.summary = response'.summary
            /\ held'.shares = {"lastContract", "recentActivity", "recentErrors"}]_vars

\* A summary returned after one failure, still unchanged after a second
\* failure and a clear, which have left the store with another error log.
HeldSummaryOutlivedClear ==
    /\ Len(history) = 3
    /\ history[1].e.type.s = "contract_failure"
    /\ history[2].e.type.s = "pdf_compile_failure"
    /\ history[3].op = "clear"
    /\ held.summary # None
    /\ Len(held.summary[1].recentErrors) = 1
    /\ Len(held.summary[1].recentActivity) = 1
    /\ held.summary[1].totals.contractFailures = 1
    /\ held.shares = {"lastContract"}
    /\ state.recentErrors = <<>>
    /\ Len(state.recentActivity) = 2

\* Every telemetry request of the client has been ingested and no updater
\* function of the cache is pending.
AllPostsIngested ==
    /\ scenario = "client"
    /\ posted >= 1
    /\ inflight = {}
    /\ client.queue = <<>>

(***************************************************************************)
(* C30.  Once every pdf_cached and pdf_cache_cleared request the client    *)
(* posted has been ingested, the pdfCacheEntries gauge of the store equals *)
(* the number of entries the cache of the client holds, in whatever order  *)
(* the add and clear actions and the requests interleaved.                 *)
(***************************************************************************)
GaugeMatchesClientCache ==
    AllPostsIngested => state.pdfCacheEntries = Len(client.entries)

\* The places in the outbox of the events of the given types that the n-th
\* submission posted.
PostedBy(n, types) ==
    {i \in 1..Len(client.outbox) :
        /\ client.outbox[i].fields.type \in {Str(t) : t \in types}
        /\ client.outbox[i].fields.timestamp = Num(n)}

Outcomes(n) == PostedBy(n, {"contract_success", "contract_failure"})

\* handleSubmit of the n-th submission has returned.
HandlerEnded(n) ==
    /\ n \in 1..Len(client.page.runs)
    /\ n < Len(client.page.runs) \/ client.page.pc = "idle"

(***************************************************************************)
(* C29.  Every submission of the contract page that posts contract_attempt *)
(* later posts exactly one of contract_success and contract_failure,       *)
(* whichever of the generation request and the two parallel compilations   *)
(* fail; contract_success is posted only after both compilations have      *)
(* succeeded and pdf_cached has been posted; isSubmitting is false again   *)
(* when the handler ends.                                                  *)
(***************************************************************************)
SubmissionPostsOneOutcome ==
    /\ [](\A n \in 1..MaxSubmissions :
            /\ Cardinality(Outcomes(n)) <= 1
            /\ HandlerEnded(n) => Cardinality(Outcomes(n)) = 1
            /\ \A i \in PostedBy(n, {"contract_success"}) :
                 /\ \A d \in DocTypes : client.page.runs[n][d] = "compiled"
                 /\ \E j \in PostedBy(n, {"pdf_cached"}) : j < i)
    /\ [](client.page.pc = "idle" => ~client.page.isSubmitting)
    /\ \A n \in 1..MaxSubmissions :
          (PostedBy(n, {"contract_attempt"}) # {}) ~> (Cardinality(Outcomes(n)) = 1)

\* A submission both of whose compilations failed has posted one failure; the
\* next submission has posted its success.
FailedTwiceThenSucceeded ==
    /\ Len(client.page.runs) = 2
    /\ \A d \in DocTypes : client.page.runs[1][d] = "failed"
    /\ Cardinality(PostedBy(1, {"pdf_compile_failure"})) = 2
    /\ Cardinality(PostedBy(1, {"contract_failure"})) = 1
    /\ Cardinality(PostedBy(2, {"contract_success"})) = 1
    /\ ~client.page.isSubmitting

\* Every view shows what localStorage holds.
ViewsAgree == \A v \in Views : browser.views[v].entries = readCache(browser)

(***************************************************************************)
(* C21.  Every addEntry and clearCache of one view is broadcast to every   *)
(* other mounted view: after the change each usePdfCache instance comes to *)
(* hold the entry list that is persisted, so that all counts agree.        *)
(***************************************************************************)
ViewsComeToAgree == []<>ViewsAgree

====
